---------------------------- MODULE Spec2Model ----------------------------
(***************************************************************************)
(* A model of evanbowman/shell (src/myshell.c): the flex tokenizer's       *)
(* actions, the builtin check, the single-command and pipeline parsers,    *)
(* the process launcher with its pipes and descriptor tables, the          *)
(* foreground waits and the SIGCHLD reaper.                                *)
(*                                                                         *)
(* The specifications of the module:                                       *)
(*   ParseSpec  one line of lexemes is drawn in the initial state and the  *)
(*              tokenizer, parse_builtin_cmds and the two parsers are      *)
(*              applied to it as shell_eval applies them;                  *)
(*   GrammarSpec  the same on longer lines of plain words and operators,   *)
(*              without builtin names and quoted operators;                *)
(*   Spec       the read-eval loop of main() together with the child       *)
(*              processes and the signal handler, reading short lines      *)
(*              whatever the children of earlier lines are doing;          *)
(*   LineSpec   the same loop reading longer lines (pipelines of three     *)
(*              stages, both redirects) one at a time; FairLineSpec and    *)
(*              LiveLineSpec and ReapLineSpec add fairness to it;          *)
(*   EvalSpec   the shell reading and running one line, builtin names      *)
(*              among its words, which it keeps for the properties to      *)
(*              speak of;                                                  *)
(*   AllocSpec  the first line read and parsed, any allocation failing.    *)
(*                                                                         *)
(* Taken as given: pipe() succeeds (its result is not tested, lines        *)
(* 444-446); a child stopped or continued (WUNTRACED, WCONTINUED) does not *)
(* occur, the shell having no job control.                                 *)
(***************************************************************************)
EXTENDS Integers, Sequences, FiniteSets, TLC

(***************************************************************************)
(* Bounds of the model.                                                    *)
(***************************************************************************)
\* longest line (in lexemes) drawn by ParseSpec
ParseLen == 5
\* longest line (in lexemes) drawn by GrammarSpec
GrammarLen == 6
\* longest line (in lexemes) read by the shell of EvalSpec
EvalLen == 4
\* longest line (in lexemes) read by the shell of AllocSpec
AllocLen == 4
\* longest line (in lexemes) read by the shell loop of Spec
MaxLen == 2
\* longest line (in lexemes) read by the shell loop of LineSpec
LineLen == 5
\* most child processes alive at once in Spec; fork fails beyond (EAGAIN)
MaxProcs == 2
\* the same, in LineSpec
LineProcs == 3

(***************************************************************************)
(* Program constants.                                                      *)
(***************************************************************************)
NUM_BUILTINS == 2
PARSE_SUCCESS == 0
PARSE_ERROR == 1
PIPE_NONE == 0
PIPE_OUT == 1
PIPE_IN == 2
CMD_EXIT == 0
CMD_CD == 1
EXIT_SUCCESS == 0
EXIT_FAILURE == 1

\* the null pointer, as the value of a char * (argv terminator, unset
\* redirect) and of a char ** (command_t.argv before any slice)
NULL == "NULL"
NullArgv == <<>>

(***************************************************************************)
(* Tokens.  The parsers look only at the first character of a token.       *)
(***************************************************************************)
OperatorChars == {"|", "<", ">", "&"}

\* vec_contents[idx][0]: the first character of a token; every token that is
\* not one of the one-character operators starts with a word character
Char0(tok) == IF tok \in OperatorChars THEN tok ELSE "w"

\* the lexeme  "|"  written between double quotes on the input line
QuotedPipe == "\"|\""

WordLexemes == {"a", "b"}
BuiltinLexemes == {"cd", "exit"}

\* what one lexeme of the input line can be
Lexemes == WordLexemes \cup BuiltinLexemes \cup OperatorChars \cup {QuotedPipe}

RECURSIVE SeqsUpTo(_, _)
SeqsUpTo(S, n) ==
    IF n = 0 THEN {<<>>}
    ELSE LET shorter == SeqsUpTo(S, n - 1)
         IN  shorter \cup {Append(s, x) : s \in {t \in shorter : Len(t) = n - 1}, x \in S}

(***************************************************************************)
(* The tokenizer (yylex rules 1-6 and shell_read's resets).                *)
(***************************************************************************)
\* the state shell_read establishes before lexer_parse_buffer runs
LexReset ==
    [tokens |-> <<>>, num_commands |-> 1, num_builtins |-> 0,
     builtin_idxs |-> [i \in 0 .. NUM_BUILTINS - 1 |-> -1]]

\* one rule action of yylex applied to lexeme lx
LexRule(lx, s) ==
    CASE lx = "cd" ->
           [s EXCEPT !.tokens = Append(@, lx),
                     !.builtin_idxs[CMD_CD] = s.num_commands - 1,
                     !.num_builtins = @ + 1]
      [] lx = "exit" ->
           [s EXCEPT !.tokens = Append(@, lx),
                     !.builtin_idxs[CMD_EXIT] = s.num_commands - 1,
                     !.num_builtins = @ + 1]
      [] lx = "|" ->
           [s EXCEPT !.tokens = Append(@, lx), !.num_commands = @ + 1]
      [] lx \in {"<", ">", "&"} ->
           [s EXCEPT !.tokens = Append(@, lx)]
      [] lx = QuotedPipe ->
           \* rule 5 strips the quotes and pushes the text between them
           [s EXCEPT !.tokens = Append(@, "|")]
      [] OTHER ->
           [s EXCEPT !.tokens = Append(@, lx)]

RECURSIVE LexFrom(_, _, _)
LexFrom(line, k, s) ==
    IF k > Len(line) THEN s ELSE LexFrom(line, k + 1, LexRule(line[k], s))

\* shell_read: reset the globals, then tokenize the line
Lex(line) == LexFrom(line, 1, LexReset)

(***************************************************************************)
(* slice_argv_from_vec.  C indices are 0-based; start_pos and end_pos are  *)
(* size_t, so end_pos = -1 stands for SIZE_MAX and end_pos + 2 - start_pos *)
(* wraps to the same value the integers give whenever that value is >= 1.  *)
(***************************************************************************)
SliceLenBug(start_pos, end_pos) == end_pos + 1 - start_pos

SliceLen(start_pos, end_pos) == end_pos + 2 - start_pos

slice_argv_from_vec(toks, start_pos, end_pos) ==
    LET n == SliceLen(start_pos, end_pos)
    IN  [k \in 1 .. n |-> IF k = n THEN NULL ELSE toks[start_pos + k]]

(***************************************************************************)
(* parse_builtin_cmds                                                      *)
(***************************************************************************)
\* the same without the test of lines 185-187
parse_builtin_cmdsBug(lx) ==
    IF lx.num_builtins > 1 THEN PARSE_ERROR
    ELSE IF \E i \in 0 .. NUM_BUILTINS - 1 : lx.builtin_idxs[i] > 1 THEN PARSE_ERROR
    ELSE PARSE_SUCCESS

parse_builtin_cmds(lx) ==
    IF lx.num_builtins > 1 THEN PARSE_ERROR
    ELSE IF lx.num_builtins = 1 /\ lx.num_commands > 1 THEN PARSE_ERROR
    ELSE IF \E i \in 0 .. NUM_BUILTINS - 1 : lx.builtin_idxs[i] > 1 THEN PARSE_ERROR
    ELSE PARSE_SUCCESS

(***************************************************************************)
(* parse_single_command.  The state of the scan: the command being filled  *)
(* (argv, src, dest), global_bkg_proc, seen_command and the result.        *)
(***************************************************************************)
EmptyCommand == [argv |-> NullArgv, dest |-> NULL, src |-> NULL]

SingleStart(bkg) ==
    [res |-> PARSE_SUCCESS, argv |-> NullArgv, dest |-> NULL, src |-> NULL,
     bkg |-> bkg, seen |-> FALSE]

\* the same without the '|'
SingleBadNextBug == {">", "<"}

\* the operators after which a redirect is refused, lines 291 and 303
SingleBadNext == {">", "<", "|"}

\* the slice taken without the test of lines 293, 305, 315 and 322
SingleSliceBug(toks, s, e) == slice_argv_from_vec(toks, 0, e)

\* if (!p_command->argv) p_command->argv = slice_argv_from_vec(p_vec, 0, e)
SingleSlice(toks, s, e) ==
    IF s.argv = NullArgv THEN slice_argv_from_vec(toks, 0, e) ELSE s.argv

RECURSIVE SingleLoop(_, _, _)
SingleLoop(toks, idx, s) ==
    LET npos == Len(toks)
        c == Char0(toks[idx + 1])
        sliced(e) == SingleSlice(toks, s, e)
    IN  IF idx >= npos THEN s
        ELSE IF c \in {"<", ">"} THEN
            IF idx + 1 = npos THEN [s EXCEPT !.res = PARSE_ERROR]
            ELSE IF Char0(toks[idx + 2]) \in SingleBadNext
                 THEN [s EXCEPT !.res = PARSE_ERROR]
            ELSE IF c = "<"
                 THEN SingleLoop(toks, idx + 2,
                        [s EXCEPT !.argv = sliced(idx - 1), !.src = toks[idx + 2]])
                 ELSE SingleLoop(toks, idx + 2,
                        [s EXCEPT !.argv = sliced(idx - 1), !.dest = toks[idx + 2]])
        ELSE IF c = "&" THEN
            IF idx + 1 # npos THEN [s EXCEPT !.res = PARSE_ERROR]
            ELSE SingleLoop(toks, idx + 1,
                   [s EXCEPT !.argv = sliced(idx - 1), !.bkg = TRUE])
        ELSE IF idx + 1 = npos /\ ~s.seen
             THEN SingleLoop(toks, idx + 1,
                    [s EXCEPT !.argv = sliced(idx), !.seen = TRUE])
             ELSE SingleLoop(toks, idx + 1, s)

\* the result: res, the command (argv, dest, src) and global_bkg_proc
parse_single_command(toks, bkg) ==
    IF Len(toks) = 0 THEN [SingleStart(bkg) EXCEPT !.res = PARSE_ERROR]
    ELSE SingleLoop(toks, 0, SingleStart(bkg))

(***************************************************************************)
(* parse_multiple_commands.  Called only when the tokenizer counted a      *)
(* pipe, so the first scan always stops on a token of the line.            *)
(***************************************************************************)
\* lines 341-349: seek the end of the first command; -1 when a '>' is met
RECURSIVE SeekFirstEnd(_, _)
SeekFirstEnd(toks, idx) ==
    LET c == Char0(toks[idx + 1])
    IN  IF c \in {"|", "<", "&"} THEN idx
        ELSE IF c = ">" THEN -1
        ELSE SeekFirstEnd(toks, idx + 1)

\* the operators refused right after a '|' or a '>', lines 371 and 395
MultiBadNext == {"<", ">", "&"}

\* line 388-393: a '|' among the tokens inner_idx .. npos - 2
PipeFollows(toks, idx) ==
    \E inner_idx \in idx .. Len(toks) - 2 : Char0(toks[inner_idx + 1]) = "|"

\* a push at the front of the vector instead of its end
MultiPushBug(s, command) == [s EXCEPT !.cmds = <<command>> \o @]

\* vec_push(p_command_vec, &current_command)
MultiPush(s, command) == [s EXCEPT !.cmds = Append(@, command)]

RECURSIVE MultiLoop(_, _, _)
MultiLoop(toks, idx, s) ==
    LET npos == Len(toks)
        c == Char0(toks[idx + 1])
        err == [s EXCEPT !.res = PARSE_ERROR]
        cur(e) == [EmptyCommand EXCEPT
                     !.argv = slice_argv_from_vec(toks, s.command_start_idx, e)]
    IN  IF idx >= npos THEN
            \* lines 428-435
            IF s.seen THEN MultiPush(s, cur(idx - 1)) ELSE s
        ELSE IF c = "|" THEN
            IF ~s.seen THEN err
            ELSE IF idx + 1 = npos THEN err
            ELSE IF Char0(toks[idx + 2]) \in MultiBadNext THEN err
            ELSE MultiLoop(toks, idx + 1,
                   [MultiPush(s, cur(idx - 1)) EXCEPT
                      !.command_start_idx = idx + 1, !.seen = FALSE])
        ELSE IF c = "<" THEN err
        ELSE IF c = ">" THEN
            IF ~s.seen THEN err
            ELSE IF idx + 1 = npos THEN err
            ELSE IF PipeFollows(toks, idx) THEN err
            ELSE IF Char0(toks[idx + 2]) \in MultiBadNext THEN err
            ELSE MultiLoop(toks, idx + 2,
                   [MultiPush(s, [cur(idx - 1) EXCEPT !.dest = toks[idx + 2]])
                      EXCEPT !.seen = FALSE])
        ELSE IF c = "&" THEN
            IF idx + 1 # npos THEN err
            ELSE IF s.seen
                 THEN MultiLoop(toks, idx + 1,
                        [MultiPush(s, cur(idx - 1)) EXCEPT !.seen = FALSE, !.bkg = TRUE])
                 ELSE MultiLoop(toks, idx + 1, [s EXCEPT !.bkg = TRUE])
        ELSE IF ~s.seen
             THEN MultiLoop(toks, idx + 1,
                    [s EXCEPT !.command_start_idx = idx, !.seen = TRUE])
             ELSE MultiLoop(toks, idx + 1, s)

\* the result: res, the commands pushed to p_command_vec and global_bkg_proc
parse_multiple_commands(toks, bkg) ==
    LET npos == Len(toks)
        start == [res |-> PARSE_SUCCESS, cmds |-> <<>>, bkg |-> bkg,
                  seen |-> FALSE, command_start_idx |-> 0]
        idx == SeekFirstEnd(toks, 0)
    IN  IF idx = -1 THEN [start EXCEPT !.res = PARSE_ERROR]
        ELSE LET takes == Char0(toks[idx + 1]) = "<" /\ idx + 3 < npos
                 first == [EmptyCommand EXCEPT
                             !.argv = slice_argv_from_vec(toks, 0, idx - 1),
                             !.src = IF takes THEN toks[idx + 2] ELSE NULL]
                 next == IF takes THEN idx + 3 ELSE idx + 1
             IN  MultiLoop(toks, next,
                   [MultiPush(start, first) EXCEPT !.command_start_idx = next])

(***************************************************************************)
(* The parsing half of shell_eval (lines 235-253 and 264-274): what the    *)
(* line turns into.  kind is "empty" (no token), "error", "builtin",       *)
(* "single" or "chain"; called is the parser that ran; cmds are the        *)
(* commands handed to the launcher; bkg is global_bkg_proc afterwards.     *)
(* For a builtin line the result keeps what eval_builtin_cmds reads:       *)
(* the tagged builtins, p_vec->npos and vec_contents[1].                   *)
(***************************************************************************)
NoLine ==
    [kind |-> "empty", called |-> "none", cmds |-> <<>>, bkg |-> FALSE,
     tagged |-> {}, npos |-> 0, arg1 |-> NULL]

\* shell_eval without lines 239-245: every line goes to the single-command
\* parser
EvalParseBug(lx, bkg) ==
    LET r == parse_single_command(lx.tokens, bkg)
    IN  IF Len(lx.tokens) = 0 THEN [NoLine EXCEPT !.bkg = bkg]
        ELSE IF r.res = PARSE_ERROR
        THEN [NoLine EXCEPT !.kind = "error", !.called = "single", !.bkg = r.bkg]
        ELSE [NoLine EXCEPT
                !.kind = "single", !.called = "single", !.bkg = r.bkg,
                !.cmds = <<[argv |-> r.argv, dest |-> r.dest, src |-> r.src]>>]

EvalParse(lx, bkg) ==
    LET none == [NoLine EXCEPT !.bkg = bkg]
        prs_res == parse_builtin_cmds(lx)
    IN  IF Len(lx.tokens) = 0 THEN none
        ELSE IF prs_res # PARSE_ERROR /\ lx.num_builtins # 0
             THEN [none EXCEPT
                     !.kind = "builtin",
                     !.tagged = {i \in 0 .. NUM_BUILTINS - 1 : lx.builtin_idxs[i] # -1},
                     !.npos = Len(lx.tokens),
                     !.arg1 = IF Len(lx.tokens) >= 2 THEN lx.tokens[2] ELSE NULL]
        ELSE IF prs_res = PARSE_ERROR THEN [none EXCEPT !.kind = "error"]
        ELSE IF lx.num_commands = 1 THEN
            LET r == parse_single_command(lx.tokens, bkg)
            IN  IF r.res = PARSE_ERROR
                THEN [none EXCEPT !.kind = "error", !.called = "single", !.bkg = r.bkg]
                ELSE [none EXCEPT
                        !.kind = "single", !.called = "single", !.bkg = r.bkg,
                        !.cmds = <<[argv |-> r.argv, dest |-> r.dest, src |-> r.src]>>]
        ELSE
            LET r == parse_multiple_commands(lx.tokens, bkg)
            IN  IF r.res = PARSE_ERROR
                THEN [none EXCEPT !.kind = "error", !.called = "multi", !.bkg = r.bkg]
                ELSE [none EXCEPT
                        !.kind = "chain", !.called = "multi", !.bkg = r.bkg,
                        !.cmds = r.cmds]

(***************************************************************************)
(* State.                                                                  *)
(***************************************************************************)
VARIABLES
    \* ParseSpec: the line, the tokenizer's output, the parse, the position
    input, lexed, parsed, ppc,
    \* the shell: position in main/shell_eval/launch_process_chain
    pc,
    \* the command (single) or command_vec (pipeline) of the line in hand
    cmds,
    global_bkg_proc, global_num_pipes,
    \* launch_process_chain's locals: fd[], idx, pids[] (shell_eval's pid)
    fd, idx, pids,
    \* the pipe ends the shell holds open
    shellFds,
    \* the shell's children, by pid
    procs,
    \* SIGCHLD: which semantics signal() has in this build, whether
    \* sigchld_handler is the disposition, whether the signal is pending,
    \* whether the handler is running
    sigMode, handler, sigpending, inHandler,
    \* how many processes the system lets the shell have (RLIMIT_NPROC)
    nproc,
    \* the working directory and the shell's exit status
    cwd, exitStatus

parseVars == <<input, lexed, parsed, ppc>>
shellVars == <<pc, cmds, global_bkg_proc, global_num_pipes, fd, idx, pids,
               shellFds, cwd, exitStatus>>
envVars == <<sigMode, nproc>>
sigVars == <<envVars, handler, sigpending, inHandler>>
vars == <<parseVars, shellVars, procs, sigVars>>

(***************************************************************************)
(* ParseSpec: the tokenizer and the parsers applied to one line.           *)
(***************************************************************************)
ParseLines == UNION {[1 .. n -> Lexemes] : n \in 0 .. ParseLen}

\* what a descriptor refers to: nothing, the terminal, a file, a pipe end
Closed == [kind |-> "closed", pipe |-> -1, end |-> "-", name |-> "-"]
Tty == [kind |-> "tty", pipe |-> -1, end |-> "-", name |-> "-"]
File(path) == [kind |-> "file", pipe |-> -1, end |-> "-", name |-> path]
PipeEnd(id, e) == [kind |-> "pipe", pipe |-> id, end |-> e, name |-> "-"]

\* what lines 479-505 make of the child's descriptors, and what can end the
\* child before its program runs: opens (a redirect file to fopen),
\* execable (argv[0] is a name execvp can look up)
NoPlan == [stdin |-> Closed, stdout |-> Closed, fds |-> {},
           opens |-> FALSE, execable |-> FALSE]

\* a pid no process has
FreeProc ==
    [st |-> "free", stdin |-> Closed, stdout |-> Closed, fds |-> {},
     plan |-> NoPlan, status |-> "-"]

\* the most commands a line of LineLen lexemes parses to
MaxCmds == (LineLen \div 2) + 1

\* process ids: enough for the live children beside the pids of the line
\* in hand, which fork does not hand out again while they are recorded
Pids == 1 .. (LineProcs + MaxCmds)

SigModes == {"bsd", "sysv"}

ParseInitWith(lines) ==
    /\ input \in lines
    /\ lexed = LexReset
    /\ parsed = NoLine
    /\ ppc = "lex"
    /\ pc = "off"
    /\ cmds = <<>>
    /\ global_bkg_proc = FALSE
    /\ global_num_pipes = 0
    /\ fd = <<>>
    /\ idx = 0
    /\ pids = <<>>
    /\ shellFds = {}
    /\ procs = [p \in Pids |-> FreeProc]
    /\ sigMode = "bsd"
    /\ nproc = MaxProcs
    /\ handler = TRUE
    /\ sigpending = FALSE
    /\ inHandler = FALSE
    /\ cwd = "start"
    /\ exitStatus = -1

\* shell_read: lexer_parse_buffer(buffer)
PLex ==
    /\ ppc = "lex"
    /\ lexed' = Lex(input)
    /\ ppc' = "eval"
    /\ UNCHANGED <<input, parsed, shellVars, procs, sigVars>>

\* shell_eval up to the launch, entered with global_bkg_proc as the
\* previous line left it
PEval ==
    /\ ppc = "eval"
    /\ parsed' = EvalParse(lexed, global_bkg_proc)
    /\ ppc' = "done"
    /\ UNCHANGED <<input, lexed, shellVars, procs, sigVars>>

ParseNext == PLex \/ PEval

ParseInit == ParseInitWith(ParseLines)

ParseSpec == ParseInit /\ [][ParseNext]_vars

\* GrammarSpec: the same two steps on longer lines of plain words and
\* unquoted operators
GrammarLexemes == WordLexemes \cup OperatorChars

GrammarLines == UNION {[1 .. n -> GrammarLexemes] : n \in 0 .. GrammarLen}

GrammarInit == ParseInitWith(GrammarLines)

GrammarSpec == GrammarInit /\ [][ParseNext]_vars

(***************************************************************************)
(* Processes, pipes and descriptors.                                       *)
(***************************************************************************)
Range(f) == {f[x] : x \in DOMAIN f}

\* arr[k] for a C array held as a sequence
At(arr, k) == arr[k + 1]

\* options & PIPE_OUT, options & PIPE_IN
HasFlag(options, flag) == (options \div flag) % 2 = 1

\* the children that exist: forked, running, or terminated and not reaped
Children == {p \in Pids : procs[p].st # "free"}
Zombies == {p \in Pids : procs[p].st = "zombie"}

\* the pipe ends a process holds: inherited descriptors and stdin/stdout
EndsOf(c) == c.fds \cup {x \in {c.stdin, c.stdout} : x.kind = "pipe"}

HeldEnds == shellFds \cup UNION {EndsOf(procs[p]) : p \in Pids}

\* pipe(): n new pipes, named by the n smallest ids no descriptor refers to
RECURSIVE FreshPipeIds(_, _)
FreshPipeIds(used, n) ==
    IF n = 0 THEN <<>>
    ELSE LET id == CHOOSE i \in 0 .. Cardinality(used) :
                     i \notin used /\ \A j \in 0 .. i - 1 : j \in used
         IN  <<id>> \o FreshPipeIds(used \cup {id}, n - 1)

\* lines 444-446: pipe(&fd[2 * idx]) puts the read end at fd[2 * idx] and
\* the write end at fd[2 * idx + 1]
FdArray(ids) ==
    [k \in 1 .. 2 * Len(ids) |->
        PipeEnd(ids[((k - 1) \div 2) + 1], IF (k - 1) % 2 = 0 THEN "r" ELSE "w")]

\* whether some process still holds the write end of pipe id
HasWriter(id) == PipeEnd(id, "w") \in HeldEnds

\* a read on the child's stdin returns end-of-file: a pipe with no writer
\* left; the terminal and files are taken to end
AtEOF(p) ==
    procs[p].stdin.kind = "pipe" => ~HasWriter(procs[p].stdin.pipe)

\* fork(): -1, or the pid of the child; EAGAIN once nproc children exist
NewPid ==
    CHOOSE p \in Pids :
        /\ procs[p].st = "free" /\ p \notin Range(pids)
        /\ \A q \in 1 .. p - 1 : procs[q].st # "free" \/ q \in Range(pids)

ForkResults ==
    {-1} \cup (IF Cardinality(Children) < nproc THEN {NewPid} ELSE {})

(***************************************************************************)
(* The child's half of launch_process, lines 478-508.  The child works on  *)
(* its copy of p_command, options, fd, idx and global_num_pipes, which      *)
(* nothing changes after fork: what it makes of its descriptors is fixed   *)
(* at fork and kept in the child's record as its plan.                     *)
(***************************************************************************)
\* line 488: the descriptor dup2'ed onto stdout
StdoutPipeIndex(k) == k * 2 + 1

\* line 500: the descriptor dup2'ed onto stdin
StdinPipeIndexBug(k) == k * 2

StdinPipeIndex(k) == k * 2 - 2

\* line 503: how many entries of fd the child closes
ChildCloseCountBug(npipes) == npipes

ChildCloseCount(npipes) == npipes * 2

\* lines 479-505: the rebinds in the order of the code (a later dup2
\* replaces an earlier rebind), then the close loop
ChildSetup(command, options, k, fdarr, npipes, inherited) ==
    LET out1 == IF command.dest # NULL THEN File(command.dest) ELSE Tty
        out2 == IF HasFlag(options, PIPE_OUT)
                THEN At(fdarr, StdoutPipeIndex(k)) ELSE out1
        in1 == IF command.src # NULL THEN File(command.src) ELSE Tty
        in2 == IF HasFlag(options, PIPE_IN)
               THEN At(fdarr, StdinPipeIndex(k)) ELSE in1
        closed == {At(fdarr, i) : i \in 0 .. ChildCloseCount(npipes) - 1}
    IN  [stdin |-> in2, stdout |-> out2, fds |-> inherited \ closed,
         opens |-> command.dest # NULL \/ command.src # NULL,
         execable |-> command.argv # NullArgv /\ command.argv[1] # NULL]

\* the child as fork leaves it: the shell's descriptors, and its plan
Spawned(command, options, k) ==
    [FreeProc EXCEPT
        !.st = "forked", !.stdin = Tty, !.stdout = Tty, !.fds = shellFds,
        !.plan = ChildSetup(command, options, k, fd, global_num_pipes, shellFds)]

AfterFork(r, command, options, k) ==
    IF r = -1 THEN procs
    ELSE [procs EXCEPT ![r] = Spawned(command, options, k)]

Terminated(status) == [FreeProc EXCEPT !.st = "zombie", !.status = status]

\* the kernel posts SIGCHLD to the shell unless the disposition is SIG_DFL
Raise == sigpending' = (sigpending \/ handler)

\* how the child's run from fork to execvp can end: "crashed" when an fopen
\* fails (fileno(NULL) is evaluated, lines 482 and 493), "exec_failed" when
\* execvp returns (lines 507-508), "running" when the program starts
ExecOutcomes(c) ==
    {"exec_failed"}
      \cup (IF c.plan.opens THEN {"crashed"} ELSE {})
      \cup (IF c.plan.execable THEN {"running"} ELSE {})

\* the child from fork to execvp (or to its death before it)
ChildExec(p) ==
    /\ pc # "exited"
    /\ procs[p].st = "forked"
    /\ \E how \in ExecOutcomes(procs[p]) :
         IF how = "running"
         THEN /\ procs' = [procs EXCEPT ![p] =
                             [FreeProc EXCEPT !.st = "running",
                                              !.stdin = procs[p].plan.stdin,
                                              !.stdout = procs[p].plan.stdout,
                                              !.fds = procs[p].plan.fds]]
              /\ UNCHANGED sigpending
         ELSE /\ procs' = [procs EXCEPT ![p] = Terminated(how)]
              /\ Raise
    /\ UNCHANGED <<parseVars, shellVars, envVars, handler, inHandler>>

\* the program run by the child terminates
ChildExit(p) ==
    /\ pc # "exited"
    /\ procs[p].st = "running"
    /\ procs' = [procs EXCEPT ![p] = Terminated("exited")]
    /\ Raise
    /\ UNCHANGED <<parseVars, shellVars, envVars, handler, inHandler>>

\* the same, for a program that ends once it has read end-of-file
ChildExitAtEOF(p) == AtEOF(p) /\ ChildExit(p)

(***************************************************************************)
(* waitpid.                                                                *)
(***************************************************************************)
Reaped(p) == [procs EXCEPT ![p] = FreeProc]

\* waitpid(pid, &status, WUNTRACED | WCONTINUED) as the launcher calls it
\* (not at all when pid is 0): the values of procs with which the call
\* returns; none while it blocks.  pid -1 (a failed fork) waits for any child.
WaitResults(pid) ==
    IF pid = 0 THEN {procs}
    ELSE IF pid = -1 THEN
        IF Zombies # {} THEN {Reaped(z) : z \in Zombies}
        ELSE IF Children = {} THEN {procs}
        ELSE {}
    ELSE IF procs[pid].st = "zombie" THEN {Reaped(pid)}
    ELSE IF procs[pid].st = "free" THEN {procs}
    ELSE {}

\* where the shell stands once the wait in hand has returned: the next
\* wait of the chain, or back in main's loop with the line's memory freed
WaitDone ==
    IF pc = "chain_wait" /\ idx + 1 < Len(cmds)
    THEN [pc |-> pc, cmds |-> cmds, fd |-> fd, pids |-> pids, idx |-> idx + 1]
    ELSE [pc |-> "read", cmds |-> <<>>, fd |-> <<>>, pids |-> <<>>, idx |-> 0]

(***************************************************************************)
(* The shell: main's loop, shell_read, shell_eval.                         *)
(***************************************************************************)
\* what the lines the shell reads in Spec are made of
SysLexemes == {"a", "exit", "|", ">", "&"}

SysLines == SeqsUpTo(SysLexemes, MaxLen)

\* what the lines the shell reads in LineSpec are made of
LineLexemes == {"a", "|", "<", ">", "&"}

LineLines == SeqsUpTo(LineLexemes, LineLen)

\* S itself, held as an enumerated set without repeats
Normal(S) == IF Cardinality(S) >= 0 THEN S ELSE {}

\* what the lines turn into, by the value of global_bkg_proc on entry
OutcomesOf(lines) ==
    [b \in BOOLEAN |-> Normal({EvalParse(Lex(l), b) : l \in lines})]

SysOutcomes == OutcomesOf(SysLines)

LineOutcomes == OutcomesOf(LineLines)

\* line 208-212: getenv("HOME"), else the password database
HomeDir == "home"

\* eval_builtin_cmds: the directory cd asks chdir for; NULL when it does
\* not call chdir (usage error) or cd is not the builtin tagged
ChdirTarget(r) ==
    IF r.kind = "builtin" /\ CMD_EXIT \notin r.tagged /\ CMD_CD \in r.tagged
    THEN CASE r.npos = 1 -> HomeDir
           [] r.npos = 2 -> r.arg1
           [] OTHER -> NULL
    ELSE NULL

\* shell_eval without the return of lines 250-253: after a failed single
\* parse the command is launched as the parse left it
EvaluateBug(r) ==
    \E chdirOK \in BOOLEAN :
         /\ global_bkg_proc' = r.bkg
         /\ global_num_pipes' = IF r.called = "single" THEN 0 ELSE global_num_pipes
         /\ cmds' = IF r.kind = "error" /\ r.called = "single"
                    THEN <<EmptyCommand>> ELSE r.cmds
         /\ pc' = CASE r.called = "single" -> "single_fork"
                    [] r.kind = "chain" -> "chain_pipes"
                    [] r.kind = "builtin" /\ CMD_EXIT \in r.tagged -> "exited"
                    [] OTHER -> "read"
         /\ exitStatus' = IF r.kind = "builtin" /\ CMD_EXIT \in r.tagged
                          THEN EXIT_SUCCESS ELSE exitStatus
         /\ cwd' = IF ChdirTarget(r) # NULL /\ chdirOK THEN ChdirTarget(r) ELSE cwd

\* shell_eval from the parse to the launch: what the outcome r of the parse
\* makes of the shell; chdir succeeds or fails
Evaluate(r) ==
    \E chdirOK \in BOOLEAN :
         /\ global_bkg_proc' = r.bkg
         /\ global_num_pipes' = IF r.called = "single" THEN 0 ELSE global_num_pipes
         /\ cmds' = r.cmds
         /\ pc' = CASE r.kind = "single" -> "single_fork"
                    [] r.kind = "chain" -> "chain_pipes"
                    [] r.kind = "builtin" /\ CMD_EXIT \in r.tagged -> "exited"
                    [] OTHER -> "read"
         /\ exitStatus' = IF r.kind = "builtin" /\ CMD_EXIT \in r.tagged
                          THEN EXIT_SUCCESS ELSE exitStatus
         /\ cwd' = IF ChdirTarget(r) # NULL /\ chdirOK THEN ChdirTarget(r) ELSE cwd

ShellReadEval(outcomes) ==
    /\ pc = "read" /\ ~inHandler
    /\ \E r \in outcomes[global_bkg_proc] : Evaluate(r)
    /\ UNCHANGED <<parseVars, fd, idx, pids, shellFds, procs, sigVars>>

\* shell_read at the end of the input: fgets returns NULL
ShellEOF ==
    /\ pc = "read" /\ ~inHandler
    /\ pc' = "exited"
    /\ exitStatus' = EXIT_SUCCESS
    /\ UNCHANGED <<parseVars, cmds, global_bkg_proc, global_num_pipes, fd, idx,
                   pids, shellFds, cwd, procs, sigVars>>

\* lines 255-263: launch the single command, then wait or go on
SingleFork ==
    /\ pc = "single_fork" /\ ~inHandler
    /\ \E r \in ForkResults :
         /\ procs' = AfterFork(r, cmds[1], PIPE_NONE, 0)
         /\ IF ~global_bkg_proc
            THEN /\ pc' = "single_wait"
                 /\ pids' = <<r>>
                 /\ UNCHANGED <<cmds, global_bkg_proc>>
            ELSE /\ pc' = "read"
                 /\ global_bkg_proc' = FALSE
                 /\ cmds' = <<>>
                 /\ UNCHANGED pids
    /\ UNCHANGED <<parseVars, global_num_pipes, fd, idx, shellFds, cwd, exitStatus,
                   sigVars>>

\* line 258: the foreground wait returns
SingleWait ==
    /\ pc = "single_wait" /\ ~inHandler
    /\ procs' \in WaitResults(pids[1])
    /\ pc' = WaitDone.pc /\ cmds' = WaitDone.cmds /\ pids' = WaitDone.pids
    /\ UNCHANGED <<parseVars, global_bkg_proc, global_num_pipes, fd, idx, shellFds,
                   cwd, exitStatus, sigVars>>

(***************************************************************************)
(* launch_process_chain.                                                   *)
(***************************************************************************)
\* lines 440-449
ChainPipes ==
    /\ pc = "chain_pipes" /\ ~inHandler
    /\ LET num_commands == Len(cmds)
           array == FdArray(FreshPipeIds({e.pipe : e \in HeldEnds}, num_commands))
       IN  /\ global_num_pipes' = num_commands
           /\ fd' = array
           /\ shellFds' = shellFds \cup Range(array)
           /\ pids' = [k \in 1 .. num_commands |-> 0]
    /\ idx' = 0
    /\ pc' = "chain_fork"
    /\ UNCHANGED <<parseVars, cmds, global_bkg_proc, cwd, exitStatus, procs, sigVars>>

\* the index of the launch_process call of line 455: idx as the loop of
\* lines 452-454 leaves it
LastLaunchIdx(num_commands) == IF num_commands - 1 > 1 THEN num_commands - 1 ELSE 1

\* lines 451-455: the options of the launch at idx
LaunchOptions(k, num_commands) ==
    IF k = 0 THEN PIPE_OUT
    ELSE IF k < LastLaunchIdx(num_commands) THEN PIPE_OUT + PIPE_IN
    ELSE PIPE_IN

\* what commands[idx] can hold when idx is past the end of the vector
GarbageCommands ==
    Normal({[argv |-> av, dest |-> d, src |-> NULL] :
               av \in {NullArgv, <<"a", NULL>>}, d \in {NULL, "a"}})

\* lines 451-455: one launch_process call of the chain
ChainFork ==
    /\ pc = "chain_fork" /\ ~inHandler
    /\ LET num_commands == Len(cmds)
           inside == idx < num_commands
       IN  \E r \in ForkResults,
              command \in (IF inside THEN {At(cmds, idx)} ELSE GarbageCommands) :
             /\ procs' = AfterFork(r, command, LaunchOptions(idx, num_commands), idx)
             /\ pids' = IF inside THEN [pids EXCEPT ![idx + 1] = r] ELSE pids
             /\ IF idx = LastLaunchIdx(num_commands)
                THEN pc' = "chain_close" /\ idx' = 0
                ELSE pc' = pc /\ idx' = idx + 1
    /\ UNCHANGED <<parseVars, cmds, global_bkg_proc, global_num_pipes, fd, shellFds,
                   cwd, exitStatus, sigVars>>

\* line 456: how many entries of fd the parent closes
ParentCloseCountBug(num_commands) == num_commands

ParentCloseCount(num_commands) == num_commands * 2

\* whether the chain is waited for, line 459
ChainWaitsBug(bkg) == TRUE

ChainWaits(bkg) == ~bkg

\* lines 456-459 and 466-468: the parent closes the pipes; a background
\* chain is done with
ChainClose ==
    /\ pc = "chain_close" /\ ~inHandler
    /\ shellFds' = shellFds \
                     {At(fd, i) : i \in 0 .. ParentCloseCount(Len(cmds)) - 1}
    /\ IF ChainWaits(global_bkg_proc)
       THEN /\ pc' = "chain_wait"
            /\ idx' = 0
            /\ UNCHANGED <<cmds, fd, pids, global_bkg_proc>>
       ELSE /\ pc' = "read"
            /\ global_bkg_proc' = FALSE
            /\ cmds' = <<>> /\ fd' = <<>> /\ pids' = <<>> /\ idx' = 0
    /\ UNCHANGED <<parseVars, global_num_pipes, cwd, exitStatus, procs, sigVars>>

\* lines 461-465: the wait for stage idx returns
ChainWait ==
    /\ pc = "chain_wait" /\ ~inHandler
    /\ procs' \in WaitResults(At(pids, idx))
    /\ pc' = WaitDone.pc /\ cmds' = WaitDone.cmds /\ fd' = WaitDone.fd
    /\ pids' = WaitDone.pids /\ idx' = WaitDone.idx
    /\ UNCHANGED <<parseVars, global_bkg_proc, global_num_pipes, shellFds, cwd,
                   exitStatus, sigVars>>

(***************************************************************************)
(* sigchld_handler, line 102-104, and what its delivery does to the call   *)
(* it interrupts.  signal() of line 107 installs it with the semantics of  *)
(* the build: BSD (the handler stays, interrupted calls restart) or        *)
(* System V (the disposition is reset to SIG_DFL on delivery, interrupted  *)
(* calls fail with EINTR), which glibc selects under line 17's             *)
(* _POSIX_C_SOURCE.                                                        *)
(***************************************************************************)
HandlerWaitOptionsBug == {}

\* the options of the handler's waitpid
HandlerWaitOptions == {"WNOHANG"}

\* the positions at which the shell is inside (or about to enter) a
\* blocking call: fgets, waitpid
BlockingPcs == {"read", "single_wait", "chain_wait"}

Sigchld ==
    /\ pc # "exited" /\ ~inHandler
    /\ sigpending /\ handler
    /\ sigpending' = FALSE
    /\ handler' = (sigMode = "bsd")
    \* while (waitpid(-1, NULL, WNOHANG) > 0);
    /\ procs' = [p \in Pids |-> IF procs[p].st = "zombie" THEN FreeProc ELSE procs[p]]
    /\ inHandler' = /\ "WNOHANG" \notin HandlerWaitOptions
                    /\ \E p \in Pids : procs[p].st \in {"forked", "running"}
    /\ \E eintr \in (IF sigMode = "sysv" /\ pc \in BlockingPcs
                     THEN BOOLEAN ELSE {FALSE}) :
         IF ~eintr
         THEN UNCHANGED <<pc, cmds, fd, pids, idx, exitStatus>>
         ELSE IF pc = "read"
         THEN \* fgets fails: shell_read frees the tokens and exits
              /\ pc' = "exited" /\ exitStatus' = EXIT_SUCCESS
              /\ UNCHANGED <<cmds, fd, pids, idx>>
         ELSE \* waitpid fails: the launcher goes on as if it had returned
              /\ pc' = WaitDone.pc /\ cmds' = WaitDone.cmds /\ fd' = WaitDone.fd
              /\ pids' = WaitDone.pids /\ idx' = WaitDone.idx
              /\ UNCHANGED exitStatus
    /\ UNCHANGED <<parseVars, global_bkg_proc, global_num_pipes, shellFds, cwd,
                   envVars>>

(***************************************************************************)
(* Spec: the shell, its children and the reaper.                           *)
(***************************************************************************)
InitWith(limit) ==
    /\ input = <<>>
    /\ lexed = LexReset
    /\ parsed = NoLine
    /\ ppc = "off"
    /\ pc = "read"
    /\ cmds = <<>>
    /\ global_bkg_proc = FALSE
    /\ global_num_pipes = 0
    /\ fd = <<>>
    /\ idx = 0
    /\ pids = <<>>
    /\ shellFds = {}
    /\ procs = [p \in Pids |-> FreeProc]
    /\ sigMode \in SigModes
    /\ nproc = limit
    /\ handler = TRUE
    /\ sigpending = FALSE
    /\ inHandler = FALSE
    /\ cwd = "start"
    /\ exitStatus = -1

Init == InitWith(MaxProcs)

\* everything but the reading of a line
Run ==
    \/ ShellEOF
    \/ SingleFork
    \/ SingleWait
    \/ ChainPipes
    \/ ChainFork
    \/ ChainClose
    \/ ChainWait
    \/ Sigchld
    \/ \E p \in Pids : ChildExec(p)
    \/ \E p \in Pids : ChildExit(p)

Next == ShellReadEval(SysOutcomes) \/ Run

Spec == Init /\ [][Next]_vars

(***************************************************************************)
(* LineSpec: the same shell reading longer lines, one at a time: a line is *)
(* read once the children of the lines before it are gone.                 *)
(***************************************************************************)
Quiescent == Children = {} /\ ~sigpending

LineRead == Quiescent /\ ShellReadEval(LineOutcomes)

LineNext == LineRead \/ Run

LineInit == InitWith(LineProcs)

LineSpec == LineInit /\ [][LineNext]_vars

(***************************************************************************)
(* EvalSpec: the shell reads one line, builtin names among its words, and  *)
(* evaluates it; the line, its tokens and its parse are kept in input,     *)
(* lexed and parsed while the line runs and after.                         *)
(***************************************************************************)
EvalLexemes == {"a", "b", "cd", "exit", "|", "<", ">", "&"}

EvalLines == Normal(UNION {[1 .. n -> EvalLexemes] : n \in 0 .. EvalLen})

EvalRead ==
    /\ pc = "read" /\ ~inHandler
    /\ ppc = "off"
    /\ \E l \in EvalLines :
         /\ input' = l
         /\ lexed' = Lex(l)
         /\ parsed' = EvalParse(Lex(l), global_bkg_proc)
         /\ Evaluate(EvalParse(Lex(l), global_bkg_proc))
    /\ ppc' = "done"
    /\ UNCHANGED <<fd, idx, pids, shellFds, procs, sigVars>>

EvalNext == EvalRead \/ Run

EvalInit == InitWith(LineProcs)

EvalSpec == EvalInit /\ [][EvalNext]_vars

(***************************************************************************)
(* AllocSpec: the first line of a fresh shell, read and parsed, where any  *)
(* allocation may fail.  strdup (lines 30-40) tests malloc; the rule       *)
(* actions of yylex ignore the result of vec_push; shell_eval tests        *)
(* vec_init (line 266) and the parser tests its vec_push; the malloc of    *)
(* slice_argv_from_vec (line 522) is not tested.                           *)
(***************************************************************************)
AllocLexemes == {"a", "|", ">"}

AllocLines == Normal(UNION {[1 .. n -> AllocLexemes] : n \in 0 .. AllocLen})

\* vec_push, line 539: pushing to the token vector of a fresh shell with
\* npos tokens in it needs a larger block (len starts at one element and
\* doubles)
TokenVecGrows(npos) == npos \in {1, 2, 4, 8}

\* the tokenizer on a line of which the lexemes at the positions in lost
\* were not stored: vec_push returned 0, the rule went on
RECURSIVE LexLosing(_, _, _, _)
LexLosing(line, k, s, lost) ==
    IF k > Len(line) THEN s
    ELSE LET t == LexRule(line[k], s)
         IN  LexLosing(line, k + 1,
                       IF k \in lost THEN [t EXCEPT !.tokens = s.tokens] ELSE t, lost)

\* the sets of positions at which vec_push can have failed: each at a
\* push that needed a larger block
CanLose(line) ==
    {lost \in SUBSET (1 .. Len(line)) :
        \A k \in lost :
            TokenVecGrows(Len(LexLosing(SubSeq(line, 1, k - 1), 1, LexReset, lost).tokens))}

\* the status of a process killed by SIGSEGV, as its parent sees it
KilledBySignal == 128 + 11

\* shell_read's lexer_parse_buffer: a failed strdup ends the shell, a
\* failed vec_push loses the token
AllocLex ==
    /\ ppc = "lex"
    /\ \/ \E lost \in CanLose(input) :
            /\ lexed' = LexLosing(input, 1, LexReset, lost)
            /\ ppc' = "eval"
            /\ UNCHANGED <<pc, exitStatus>>
       \/ /\ Len(input) > 0
          /\ pc' = "exited" /\ exitStatus' = EXIT_FAILURE
          /\ ppc' = "off"
          /\ UNCHANGED lexed
    /\ UNCHANGED <<input, parsed, cmds, global_bkg_proc, global_num_pipes, fd, idx,
                   pids, shellFds, cwd, procs, sigVars>>

\* how shell_eval's parse of the tokens can end: "parsed"; "exit" (the
\* vec_init of line 266 or a vec_push of the parser failed: exit of lines
\* 268, 360, 376, 400, 413, 432); "killed" (the malloc of a slice failed and
\* line 523 or 524 writes through the null pointer, or the scan of lines
\* 341-349 ran past the tokens for want of a | token); "refused" (that scan
\* stopped on a > it found past the tokens)
AllocOutcomes(lx) ==
    LET single == lx.num_commands = 1
        stops == \E i \in 1 .. Len(lx.tokens) : Char0(lx.tokens[i]) \in {"|", "<", "&", ">"}
    IN  IF Len(lx.tokens) = 0 THEN {"parsed"}
        ELSE IF single
        THEN {"parsed"} \cup
             (IF parse_single_command(lx.tokens, FALSE).argv # NullArgv
              THEN {"killed"} ELSE {})
        ELSE IF ~stops THEN {"exit", "killed", "refused"}
        ELSE {"parsed", "exit"} \cup
             (IF SeekFirstEnd(lx.tokens, 0) # -1 THEN {"killed"} ELSE {})

AllocEval ==
    /\ ppc = "eval"
    /\ \E how \in AllocOutcomes(lexed) :
         CASE how = "parsed" ->
                /\ parsed' = EvalParse(lexed, global_bkg_proc)
                /\ ppc' = "done"
                /\ UNCHANGED <<pc, exitStatus>>
           [] how = "refused" ->
                /\ parsed' = [NoLine EXCEPT !.kind = "error", !.called = "multi"]
                /\ ppc' = "done"
                /\ UNCHANGED <<pc, exitStatus>>
           [] OTHER ->
                /\ pc' = "exited"
                /\ exitStatus' = IF how = "exit" THEN EXIT_FAILURE ELSE KilledBySignal
                /\ ppc' = "off"
                /\ UNCHANGED parsed
    /\ UNCHANGED <<input, lexed, cmds, global_bkg_proc, global_num_pipes, fd, idx,
                   pids, shellFds, cwd, procs, sigVars>>

AllocNext == AllocLex \/ AllocEval

AllocInit == ParseInitWith(AllocLines)

AllocSpec == AllocInit /\ [][AllocNext]_vars

(***************************************************************************)
(* Fairness.  The shell is a running process: a step of the launcher that  *)
(* can be taken is taken (FairLineSpec).  LiveLineSpec adds the children:  *)
(* a forked child reaches its execvp, and a program whose stdin is at      *)
(* end-of-file terminates.  ReapLineSpec adds the kernel: a signal pending *)
(* for the handler is delivered.                                           *)
(***************************************************************************)
ShellStep ==
    SingleFork \/ SingleWait \/ ChainPipes \/ ChainFork \/ ChainClose \/ ChainWait

FairLineSpec == LineSpec /\ WF_vars(ShellStep)

LiveLineSpec ==
    /\ LineSpec
    /\ WF_vars(ShellStep)
    /\ \A p \in Pids : WF_vars(ChildExec(p))
    /\ \A p \in Pids : WF_vars(ChildExitAtEOF(p))

\* the same, and a SIGCHLD that is pending for the handler is delivered
ReapLineSpec == LiveLineSpec /\ WF_vars(Sigchld)

(***************************************************************************)
(* What the properties below speak of.                                     *)
(***************************************************************************)
\* the processes holding the write end of pipe id, as stdout or otherwise
WriteHolders(id) == {p \in Pids : PipeEnd(id, "w") \in EndsOf(procs[p])}

\* the shell is inside launch_process_chain, all stages launched
ChainLaunched == pc \in {"chain_close", "chain_wait"}

\* the stages of the chain in hand whose fork succeeded
Forked == {k \in 0 .. Len(pids) - 1 : At(pids, k) > 0}

\* stage k's process is past its execvp, running its program
Running(k) == k \in Forked /\ procs[At(pids, k)].st = "running"

\* stage k's process has terminated (reaped or not)
Gone(pr, k) == pr[At(pids, k)].st \in {"zombie", "free"}

\* the pipe allocated for stages k and k + 1: fd[2k] and fd[2k + 1]
PipeOf(k) == At(fd, 2 * k).pipe

(***************************************************************************)
(* C1: in a pipeline of two or more stages, once the parent has closed its *)
(* descriptors and no child is still before its execvp, the write end of   *)
(* the pipe between stage i and stage i+1 is held by stage i alone; and a  *)
(* foreground pipeline whose programs end at end-of-file is waited out:    *)
(* the shell gets back to reading.                                         *)
(***************************************************************************)
C1_WriteEndWithStageOnly ==
    (/\ pc = "chain_wait" /\ Len(cmds) >= 2
     /\ \A p \in Pids : procs[p].st # "forked")
    => /\ shellFds = {}
       /\ \A i \in 0 .. Len(cmds) - 2 :
            \A p \in WriteHolders(PipeOf(i)) :
                /\ p = At(pids, i)
                /\ procs[p].fds = {}
                /\ procs[p].stdout = PipeEnd(PipeOf(i), "w")

C1_NoLeakHangsPipeline ==
    /\ []C1_WriteEndWithStageOnly
    /\ (pc = "chain_wait" /\ Len(cmds) >= 2) ~> (pc = "read")

\* a three-stage foreground pipeline, all running, the parent waiting
C1_Witness ==
    /\ pc = "chain_wait" /\ Len(cmds) = 3
    /\ \A k \in 0 .. 2 : Running(k)
    /\ WriteHolders(PipeOf(0)) = {At(pids, 0)}
    /\ WriteHolders(PipeOf(1)) = {At(pids, 1)}

(***************************************************************************)
(* C2: a child that has reached its program holds no descriptor of any     *)
(* pipe but its stdin and stdout: it closed all it inherited before exec.  *)
(***************************************************************************)
C2_ChildClosesInherited ==
    \A p \in Pids : procs[p].st = "running" => procs[p].fds = {}

\* a middle stage, which inherited both ends of every pipe of the line,
\* running on two pipes
C2_Witness ==
    /\ ChainLaunched /\ Len(cmds) = 3 /\ Running(1)
    /\ procs[At(pids, 1)].stdin = PipeEnd(PipeOf(0), "r")
    /\ procs[At(pids, 1)].stdout = PipeEnd(PipeOf(1), "w")
    /\ procs[At(pids, 1)].fds = {}

(***************************************************************************)
(* C3: outside launch_process_chain's launch (from the pipe() calls to the *)
(* close loop) the shell holds no pipe descriptor: none while it waits,    *)
(* none when it reads the next line, foreground or background.             *)
(***************************************************************************)
C3_ParentClosesAll ==
    pc \notin {"chain_fork", "chain_close"} => shellFds = {}

\* back at reading after a background chain, a child of which still runs
\* on the line's pipe
C3_Witness ==
    /\ pc = "read" /\ shellFds = {}
    /\ \E p \in Pids : procs[p].st = "running" /\ procs[p].stdin.kind = "pipe"

(***************************************************************************)
(* C4: in a launched chain of N stages, stage i >= 1 reads the read end of *)
(* the pipe whose write end is the stdout of stage i-1; stage 0 does not   *)
(* read a pipe, stage N-1 does not write one.                              *)
(***************************************************************************)
C4_PipeWiring ==
    ChainLaunched =>
        \A i \in 0 .. Len(cmds) - 1 :
            Running(i) =>
                LET c == procs[At(pids, i)]
                IN  /\ i = 0 => c.stdin.kind # "pipe"
                    /\ i = Len(cmds) - 1 => c.stdout.kind # "pipe"
                    /\ i >= 1 => c.stdin = PipeEnd(PipeOf(i - 1), "r")
                    /\ i >= 1 /\ Running(i - 1) =>
                         procs[At(pids, i - 1)].stdout = PipeEnd(PipeOf(i - 1), "w")

\* the line "a |": one command handed to launch_process_chain, whose only
\* stage writes a pipe
C4_Witness ==
    /\ ChainLaunched /\ Len(cmds) = 1 /\ Running(0)
    /\ procs[At(pids, 0)].stdout.kind = "pipe"

(***************************************************************************)
(* C5: launch_process_chain, for a foreground chain of two or more         *)
(* commands, does not return before every stage whose fork succeeded has   *)
(* terminated.                                                             *)
(***************************************************************************)
C5_ChainWaitsEveryStage ==
    [][(pc = "chain_wait" /\ Len(cmds) >= 2 /\ pc' = "read")
         => \A k \in Forked : Gone(procs', k)]_vars

\* the state before the early return: the wait for stage 0 is in hand,
\* stage 0 runs, stage 1 has terminated and its SIGCHLD is to be delivered
C5_Witness ==
    /\ pc = "chain_wait" /\ Len(cmds) = 2 /\ idx = 0
    /\ Running(0) /\ 1 \in Forked /\ Gone(procs, 1)
    /\ sigMode = "sysv" /\ handler /\ sigpending

(***************************************************************************)
(* C6: shell_eval, for a foreground single command whose fork succeeded,   *)
(* does not get back to reading before that process has terminated.        *)
(***************************************************************************)
C6_SingleWaitsForChild ==
    [][(pc = "single_wait" /\ pc' = "read" /\ 0 \in Forked)
         => Gone(procs', 0)]_vars

\* the state before the early return: the foreground child runs, a child
\* of an earlier background line has terminated
C6_Witness ==
    /\ pc = "single_wait" /\ Running(0)
    /\ \E p \in Zombies : p # At(pids, 0)
    /\ sigMode = "sysv" /\ handler /\ sigpending

(***************************************************************************)
(* C7: with the background flag set the launcher never stands at a wait,   *)
(* and a backgrounded line that is being launched leads back to reading    *)
(* whatever its processes do.                                              *)
(***************************************************************************)
Launching == pc \in {"single_fork", "chain_pipes", "chain_fork", "chain_close"}

C7_BackgroundNeverBlocks ==
    /\ [](pc \in {"single_wait", "chain_wait"} => ~global_bkg_proc)
    /\ (global_bkg_proc /\ Launching) ~> (pc = "read")

\* the shell reads again while both stages of a background pipeline run
\* (with BSD signals no foreground wait returns on running stages)
C7_Witness ==
    /\ pc = "read" /\ sigMode = "bsd" /\ ~global_bkg_proc
    /\ \E p, q \in Pids :
         /\ procs[p].st = "running" /\ procs[q].st = "running"
         /\ procs[p].stdout.kind = "pipe"
         /\ procs[q].stdin = PipeEnd(procs[p].stdout.pipe, "r")

(***************************************************************************)
(* C8: an accepted line whose last token is & is parsed as a background    *)
(* line, and & is in no argv and is no redirect target.                    *)
(***************************************************************************)
LastToken(toks) == IF Len(toks) = 0 THEN NULL ELSE toks[Len(toks)]

C8_TrailingAmpersand ==
    (/\ ppc = "done" /\ parsed.kind \in {"single", "chain"}
     /\ LastToken(lexed.tokens) = "&")
    => /\ parsed.bkg
       /\ \A k \in 1 .. Len(parsed.cmds) :
            /\ "&" \notin Range(parsed.cmds[k].argv)
            /\ parsed.cmds[k].dest # "&"
            /\ parsed.cmds[k].src # "&"

\* the line "a > &": accepted, in the foreground, writing a file named &
C8_Witness ==
    /\ ppc = "done" /\ lexed.tokens = <<"a", ">", "&">>
    /\ parsed.kind = "single" /\ ~parsed.bkg
    /\ parsed.cmds[1].dest = "&"

(***************************************************************************)
(* C9: sigchld_handler never blocks, and one run of it leaves no           *)
(* terminated child unreaped and no other child touched, at whatever       *)
(* position of the shell it is delivered.                                  *)
(***************************************************************************)
C9_ReaperNeverBlocks ==
    /\ [](~inHandler)
    /\ [][(sigpending /\ ~sigpending')
            => /\ \A p \in Pids : procs'[p].st # "zombie"
               /\ \A p \in Pids :
                    procs[p].st \in {"forked", "running"} => procs'[p] = procs[p]]_vars

\* the handler has run (System V: the disposition is reset) and has
\* returned with a child still running, the shell waiting for it
C9_Witness ==
    /\ sigMode = "sysv" /\ ~handler /\ ~inHandler /\ ~sigpending
    /\ Zombies = {}
    /\ pc = "single_wait" /\ Running(0)

(***************************************************************************)
(* C10, as stated: a line without pipe and redirect operators parses to    *)
(* one command, its argv the word tokens in order and the terminator, no   *)
(* redirect, not in the background.                                        *)
(***************************************************************************)
IsRedirect(tok) == Char0(tok) \in {"<", ">"}

NoPipeNoRedirect ==
    /\ lexed.num_commands = 1
    /\ \A i \in 1 .. Len(lexed.tokens) : ~IsRedirect(lexed.tokens[i])

NotAmpersand(tok) == Char0(tok) # "&"

SingleOf(words) ==
    /\ parsed.kind = "single"
    /\ parsed.cmds = <<[argv |-> words \o <<NULL>>, dest |-> NULL, src |-> NULL]>>
    /\ ~parsed.bkg

C10_AsStated ==
    (ppc = "done" /\ NoPipeNoRedirect)
    => SingleOf(SelectSeq(lexed.tokens, NotAmpersand))

(***************************************************************************)
(* C10, amended: a line of one or more tokens, none of them a builtin, a   *)
(* redirect operator or &, and with no pipe operator, parses to one        *)
(* command, its argv the tokens in order and the terminator, no redirect,  *)
(* not in the background.                                                  *)
(***************************************************************************)
WordsOnly ==
    /\ NoPipeNoRedirect
    /\ Len(lexed.tokens) >= 1
    /\ lexed.num_builtins = 0
    /\ \A i \in 1 .. Len(lexed.tokens) : NotAmpersand(lexed.tokens[i])

C10_WordsOnly == (ppc = "done" /\ WordsOnly) => SingleOf(lexed.tokens)

\* three words or more, one of them a quoted "|"
C10_Witness ==
    /\ ppc = "done" /\ WordsOnly
    /\ Len(lexed.tokens) >= 3 /\ "|" \in Range(lexed.tokens)
    /\ SingleOf(lexed.tokens)

(***************************************************************************)
(* Words and commands, as the parse properties speak of them.              *)
(***************************************************************************)
\* a token that does not begin with an operator character
IsWord(tok) == Char0(tok) = "w"

\* a non-empty run of word tokens
WordRun(toks) == Len(toks) >= 1 /\ \A i \in 1 .. Len(toks) : IsWord(toks[i])

\* the command with words as its argv, reading from in and writing to out
CommandOf(words, in, out) == [argv |-> words \o <<NULL>>, dest |-> out, src |-> in]

\* the tokens of the line from the i-th to the last (1-based)
TokensFrom(i) == SubSeq(lexed.tokens, i, Len(lexed.tokens))

\* the tokens of the line before the i-th
TokensBefore(i) == SubSeq(lexed.tokens, 1, i - 1)

(***************************************************************************)
(* C11: handed a line  W < f > g  or  W > g < f  (W a non-empty run of     *)
(* words, f and g words), parse_single_command yields the one command      *)
(* with argv W, input redirect f and output redirect g, in the foreground. *)
(***************************************************************************)
C11_RedirectOrder ==
    (ppc = "done" /\ parsed.called = "single" /\ Len(lexed.tokens) >= 5) =>
        LET n == Len(lexed.tokens) - 4
            W == TokensBefore(n + 1)
            r == TokensFrom(n + 1)
        IN  \A f, g \in {r[2], r[4]} :
                (/\ WordRun(W) /\ IsWord(f) /\ IsWord(g)
                 /\ r \in {<<"<", f, ">", g>>, <<">", g, "<", f>>})
                => /\ parsed.kind = "single"
                   /\ parsed.cmds = <<CommandOf(W, f, g)>>
                   /\ ~parsed.bkg

\* the output redirect written first: "a > b < a"
C11_Witness ==
    /\ ppc = "done" /\ lexed.tokens = <<"a", ">", "b", "<", "a">>
    /\ parsed.called = "single" /\ parsed.kind = "single"
    /\ parsed.cmds = <<CommandOf(<<"a">>, "a", "b")>>

(***************************************************************************)
(* C12: handed a line of words and | tokens in which every | has a word on *)
(* both sides, parse_multiple_commands yields one command for each run of  *)
(* words between the | tokens, in the order of the line, its argv that run *)
(* of words, with no redirect, in the foreground.                          *)
(***************************************************************************)
IsPipe(tok) == Char0(tok) = "|"

\* the runs of tokens between the | tokens of toks, in order
RECURSIVE SplitAtPipes(_)
SplitAtPipes(toks) ==
    IF \A i \in 1 .. Len(toks) : ~IsPipe(toks[i]) THEN <<toks>>
    ELSE LET i == CHOOSE j \in 1 .. Len(toks) :
                      IsPipe(toks[j]) /\ \A k \in 1 .. j - 1 : ~IsPipe(toks[k])
         IN  <<SubSeq(toks, 1, i - 1)>> \o SplitAtPipes(SubSeq(toks, i + 1, Len(toks)))

\* the line is word runs separated by single | tokens, nothing else
WordsAndPipes ==
    \A k \in 1 .. Len(SplitAtPipes(lexed.tokens)) :
        WordRun(SplitAtPipes(lexed.tokens)[k])

C12_PipelineOfWords ==
    (ppc = "done" /\ parsed.called = "multi" /\ WordsAndPipes) =>
        LET runs == SplitAtPipes(lexed.tokens)
        IN  /\ parsed.kind = "chain"
            /\ parsed.cmds = [k \in 1 .. Len(runs) |-> CommandOf(runs[k], NULL, NULL)]
            /\ Len(parsed.cmds) >= 2
            /\ ~parsed.bkg

\* three stages of one word each: "a | b | a"
C12_Witness ==
    /\ ppc = "done" /\ lexed.tokens = <<"a", "|", "b", "|", "a">>
    /\ parsed.called = "multi" /\ WordsAndPipes
    /\ Len(parsed.cmds) = 3 /\ parsed.cmds[2] = CommandOf(<<"b">>, NULL, NULL)

(***************************************************************************)
(* C13: handed the line  W1 | W2 > f  (W1, W2 non-empty runs of words, f a *)
(* word), parse_multiple_commands yields two commands, the second with     *)
(* output redirect f; and it refuses every line in which a > token comes   *)
(* before a | token.                                                       *)
(***************************************************************************)
IsOutRedirect(tok) == Char0(tok) = ">"

\* some > token of the line has a | token after it
RedirectBeforePipe ==
    \E i, j \in 1 .. Len(lexed.tokens) :
        i < j /\ IsOutRedirect(lexed.tokens[i]) /\ IsPipe(lexed.tokens[j])

C13_TwoStagesRedirected ==
    (ppc = "done" /\ parsed.called = "multi" /\ Len(lexed.tokens) >= 5) =>
        LET n == Len(lexed.tokens)
            runs == SplitAtPipes(TokensBefore(n - 1))
        IN  (/\ IsOutRedirect(lexed.tokens[n - 1]) /\ IsWord(lexed.tokens[n])
             /\ Len(runs) = 2 /\ WordRun(runs[1]) /\ WordRun(runs[2]))
            => /\ parsed.kind = "chain"
               /\ parsed.cmds = <<CommandOf(runs[1], NULL, NULL),
                                  CommandOf(runs[2], NULL, lexed.tokens[n])>>

C13_RejectsRedirectBeforePipe ==
    (ppc = "done" /\ parsed.called = "multi" /\ RedirectBeforePipe)
    => parsed.kind = "error"

C13_OutputRedirectEndsPipeline ==
    C13_TwoStagesRedirected /\ C13_RejectsRedirectBeforePipe

\* the line "a | b > |": accepted, the second command writing a file named |
C13_Witness ==
    /\ ppc = "done" /\ lexed.tokens = <<"a", "|", "b", ">", "|">>
    /\ RedirectBeforePipe
    /\ parsed.kind = "chain" /\ parsed.cmds[2].dest = "|"

(***************************************************************************)
(* C14: of the commands parse_multiple_commands yields for an accepted     *)
(* line, none but the last has an output redirect: after the command that  *)
(* carries the output redirect no further command is pushed.               *)
(***************************************************************************)
C14_OnlyLastHasOutput ==
    (ppc = "done" /\ parsed.kind = "chain") =>
        \A k \in 1 .. Len(parsed.cmds) - 1 : parsed.cmds[k].dest = NULL

\* the line "a | b > a b": three commands, the second with the redirect
C14_Witness ==
    /\ ppc = "done" /\ lexed.tokens = <<"a", "|", "b", ">", "a", "b">>
    /\ parsed.kind = "chain" /\ Len(parsed.cmds) = 3
    /\ parsed.cmds[2] = CommandOf(<<"b">>, NULL, "a")
    /\ parsed.cmds[3] = CommandOf(<<"b">>, NULL, NULL)

(***************************************************************************)
(* C15: parse_multiple_commands refuses every line with a < token after    *)
(* the first | token, and of the commands of an accepted line only the     *)
(* first can have an input redirect.                                       *)
(***************************************************************************)
IsInRedirect(tok) == Char0(tok) = "<"

\* some < token of the line has a | token before it
InputAfterPipe ==
    \E i, j \in 1 .. Len(lexed.tokens) :
        i < j /\ IsPipe(lexed.tokens[i]) /\ IsInRedirect(lexed.tokens[j])

C15_RejectsInputAfterPipe ==
    (ppc = "done" /\ parsed.called = "multi" /\ InputAfterPipe)
    => parsed.kind = "error"

C15_OnlyHeadHasInput ==
    (ppc = "done" /\ parsed.kind = "chain") =>
        \A k \in 2 .. Len(parsed.cmds) : parsed.cmds[k].src = NULL

C15_InputRedirectOnlyAtHead ==
    C15_RejectsInputAfterPipe /\ C15_OnlyHeadHasInput

\* the line "a < | < b": accepted, the | taken as the file name and the
\* second < passed over
C15_Witness ==
    /\ ppc = "done" /\ lexed.tokens = <<"a", "<", "|", "<", "b">>
    /\ InputAfterPipe
    /\ parsed.kind = "chain"
    /\ parsed.cmds = <<CommandOf(<<"a">>, "|", NULL), CommandOf(<<"b">>, NULL, NULL)>>

(***************************************************************************)
(* C16: parse_multiple_commands refuses every line that starts with a |,   *)
(* ends with a |, or has a | with |, <, > or & as its next token.          *)
(***************************************************************************)
\* some | token of the line lacks a word before it or after it, in one of
\* the ways listed
PipeWithoutWord ==
    \E i \in 1 .. Len(lexed.tokens) :
        /\ IsPipe(lexed.tokens[i])
        /\ \/ i = 1
           \/ i = Len(lexed.tokens)
           \/ Char0(lexed.tokens[i + 1]) \in OperatorChars

C16_RejectsEmptyStage ==
    (ppc = "done" /\ parsed.called = "multi" /\ PipeWithoutWord)
    => parsed.kind = "error"

\* the line "| a": accepted as two commands, the first without a word
C16_Witness ==
    /\ ppc = "done" /\ lexed.tokens = <<"|", "a">>
    /\ PipeWithoutWord
    /\ parsed.kind = "chain"
    /\ parsed.cmds = <<CommandOf(<<>>, NULL, NULL), CommandOf(<<"a">>, NULL, NULL)>>

(***************************************************************************)
(* C17: in an accepted line, handed to either parser, no token but the     *)
(* last is a &.                                                            *)
(***************************************************************************)
Accepted == parsed.kind \in {"single", "chain"}

\* some token of the line before the last is a &
AmpersandInside ==
    \E i \in 1 .. Len(lexed.tokens) - 1 : ~NotAmpersand(lexed.tokens[i])

C17_AmpersandOnlyLast ==
    (ppc = "done" /\ Accepted) => ~AmpersandInside

\* the line "a & b | a": accepted as three commands in the foreground,
\* the & standing where a | would
C17_Witness ==
    /\ ppc = "done" /\ lexed.tokens = <<"a", "&", "b", "|", "a">>
    /\ AmpersandInside
    /\ parsed.kind = "chain" /\ ~parsed.bkg
    /\ parsed.cmds = <<CommandOf(<<"a">>, NULL, NULL), CommandOf(<<"b">>, NULL, NULL),
                       CommandOf(<<"a">>, NULL, NULL)>>

(***************************************************************************)
(* C18: handed a line in which a < or > token is the last token, or has a  *)
(* token beginning with <, > or | as its next, parse_single_command        *)
(* returns the parse error, and shell_eval hands no command to the         *)
(* launcher.                                                               *)
(***************************************************************************)
\* some redirect operator of the line has no file name after it
RedirectWithoutFile ==
    \E i \in 1 .. Len(lexed.tokens) :
        /\ IsRedirect(lexed.tokens[i])
        /\ \/ i = Len(lexed.tokens)
           \/ Char0(lexed.tokens[i + 1]) \in {"<", ">", "|"}

C18_RedirectNeedsFile ==
    (ppc = "done" /\ parsed.called = "single" /\ RedirectWithoutFile)
    => parsed.kind = "error" /\ parsed.cmds = <<>>

\* the line  a > b < "|" : the second redirect is followed by a token that
\* begins with |, after a first redirect that was taken
C18_Witness ==
    /\ ppc = "done" /\ lexed.tokens = <<"a", ">", "b", "<", "|">>
    /\ parsed.called = "single" /\ RedirectWithoutFile
    /\ parsed.kind = "error"

(***************************************************************************)
(* C19: every command of an accepted line, from either parser, has a word  *)
(* as argv[0]: its argv is not the terminator alone.                       *)
(***************************************************************************)
\* argv[0] of command c is a word token
HasProgram(c) == Len(c.argv) >= 2 /\ c.argv[1] # NULL /\ IsWord(c.argv[1])

C19_ArgvNeverEmpty ==
    (ppc = "done" /\ Accepted) =>
        \A k \in 1 .. Len(parsed.cmds) : HasProgram(parsed.cmds[k])

\* the line "> a": accepted by parse_single_command, argv the terminator
\* alone
C19_Witness ==
    /\ ppc = "done" /\ lexed.tokens = <<">", "a">>
    /\ parsed.called = "single" /\ parsed.kind = "single"
    /\ parsed.cmds = <<CommandOf(<<>>, NULL, "a")>>

(***************************************************************************)
(* C20: when the tokenizer tagged more than one builtin, or one builtin on *)
(* a line whose command count is above one, shell_eval reports the parse   *)
(* error and returns: eval_builtin_cmds is not called, no parser runs and  *)
(* no command is handed to the launcher.                                   *)
(***************************************************************************)
BuiltinMisuse ==
    \/ lexed.num_builtins > 1
    \/ lexed.num_builtins = 1 /\ lexed.num_commands > 1

C20_BuiltinMisuseRejected ==
    (ppc = "done" /\ BuiltinMisuse) =>
        /\ parsed.kind = "error"
        /\ parsed.called = "none"
        /\ parsed.tagged = {}
        /\ parsed.cmds = <<>>

\* the line "a | cd b": one builtin, tagged in the second of two commands
C20_Witness ==
    /\ ppc = "done" /\ lexed.tokens = <<"a", "|", "cd", "b">>
    /\ lexed.num_builtins = 1 /\ lexed.num_commands = 2
    /\ lexed.builtin_idxs[CMD_CD] = 1
    /\ parsed.kind = "error"

(***************************************************************************)
(* C21: on a line on which the tokenizer tagged a builtin, shell_eval      *)
(* returns without a fork: the shell is back in main's loop (or has        *)
(* exited) and no child process exists, whether the builtin was run or the *)
(* line refused.                                                           *)
(***************************************************************************)
\* the line read has a builtin tagged
BuiltinTagged == ppc = "done" /\ lexed.num_builtins >= 1

\* no process was forked: every pid is free, the launcher was not entered
NothingForked ==
    /\ \A p \in Pids : procs[p] = FreeProc
    /\ pc \in {"read", "exited"}
    /\ pids = <<>> /\ shellFds = {}

C21_BuiltinNeverForked == BuiltinTagged => NothingForked

\* "cd a" was run by the shell itself: its directory is a, no child exists
C21_Witness ==
    /\ BuiltinTagged /\ lexed.tokens = <<"cd", "a">>
    /\ parsed.kind = "builtin" /\ cwd = "a"
    /\ NothingForked

(***************************************************************************)
(* C22: eval_builtin_cmds runs only on a line whose first token is cd or   *)
(* exit; a line of words whose first is neither, with cd or exit among the *)
(* later ones, is launched as a command with those words as its argv and   *)
(* leaves the working directory alone and the shell running.               *)
(***************************************************************************)
IsBuiltinName(tok) == tok \in BuiltinLexemes

\* eval_builtin_cmds was called for the line read
Dispatched == ppc = "done" /\ parsed.kind = "builtin"

\* the line read is a word that is no builtin name, then one or more words
\* of which some is a builtin name
BuiltinAsArgument ==
    /\ ppc = "done" /\ WordRun(lexed.tokens)
    /\ ~IsBuiltinName(lexed.tokens[1])
    /\ \E i \in 2 .. Len(lexed.tokens) : IsBuiltinName(lexed.tokens[i])

C22_DispatchedOnlyWhenFirst ==
    Dispatched => IsBuiltinName(lexed.tokens[1])

C22_ArgumentIsLaunched ==
    BuiltinAsArgument =>
        /\ parsed.kind = "single"
        /\ parsed.cmds = <<CommandOf(lexed.tokens, NULL, NULL)>>
        /\ cwd = "start"

C22_BuiltinOnlyAsCommand ==
    C22_DispatchedOnlyWhenFirst /\ C22_ArgumentIsLaunched

\* the line "a exit" has terminated the shell
C22_Witness ==
    /\ BuiltinAsArgument /\ lexed.tokens = <<"a", "exit">>
    /\ Dispatched
    /\ pc = "exited" /\ exitStatus = EXIT_SUCCESS

(***************************************************************************)
(* C23: after a line without a pipe operator whose first token is exit,    *)
(* whatever its other tokens, the shell has terminated with success        *)
(* status.                                                                 *)
(***************************************************************************)
\* the line read has no pipe operator and starts with the builtin name
LineOf(name) ==
    /\ ppc = "done" /\ lexed.num_commands = 1
    /\ Len(lexed.tokens) >= 1 /\ lexed.tokens[1] = name

\* exit(EXIT_SUCCESS) was called
ExitedWithSuccess == pc = "exited" /\ exitStatus = EXIT_SUCCESS

\* the tokens after the first have no builtin name among them
PlainArguments ==
    \A i \in 2 .. Len(lexed.tokens) : ~IsBuiltinName(lexed.tokens[i])

C23_ExitWhateverFollows == LineOf("exit") => ExitedWithSuccess

C23_ExitWithPlainArguments ==
    (LineOf("exit") /\ PlainArguments) => ExitedWithSuccess

\* the line "exit cd" was refused and the shell reads on
C23_Witness ==
    /\ LineOf("exit") /\ lexed.tokens = <<"exit", "cd">>
    /\ parsed.kind = "error"
    /\ pc = "read" /\ exitStatus # EXIT_SUCCESS

(***************************************************************************)
(* C24: after a line without a pipe operator made of cd and two or more    *)
(* further tokens, whatever they are, cd's usage error was reported and    *)
(* the working directory is what it was.                                   *)
(***************************************************************************)
\* eval_builtin_cmds took the default case of line 223: cd was the builtin
\* run, with a token count other than 1 and 2
UsageErrorReported ==
    /\ Dispatched /\ CMD_CD \in parsed.tagged /\ CMD_EXIT \notin parsed.tagged
    /\ parsed.npos \notin {1, 2}

CdWithArguments(n) == LineOf("cd") /\ Len(lexed.tokens) = n + 1

CdWithTwoOrMore == LineOf("cd") /\ Len(lexed.tokens) >= 3

C24_DirectoryUnchanged == CdWithTwoOrMore => cwd = "start"

C24_CdUsageError ==
    CdWithTwoOrMore => (UsageErrorReported /\ cwd = "start")

C24_UsageWithPlainArguments ==
    (CdWithTwoOrMore /\ PlainArguments) => (UsageErrorReported /\ cwd = "start")

\* the line "cd cd a": refused with the parse error, not the usage error
C24_Witness ==
    /\ CdWithTwoOrMore /\ lexed.tokens = <<"cd", "cd", "a">>
    /\ parsed.kind = "error" /\ ~UsageErrorReported
    /\ cwd = "start"

(***************************************************************************)
(* C25: after a line without a pipe operator made of cd and one further    *)
(* token, whatever it is, chdir was called with that token as the path:    *)
(* the working directory is that path, or unchanged if chdir failed.       *)
(***************************************************************************)
\* chdir(path) was called for the line read, and succeeded or failed
ChdirAttempted(path) ==
    /\ Dispatched /\ ChdirTarget(parsed) = path
    /\ cwd \in {"start", path}

C25_CdOneArgument ==
    CdWithArguments(1) => ChdirAttempted(lexed.tokens[2])

C25_CdPlainArgument ==
    (CdWithArguments(1) /\ PlainArguments) => ChdirAttempted(lexed.tokens[2])

\* the line "cd exit": refused, chdir not called
C25_Witness ==
    /\ CdWithArguments(1) /\ lexed.tokens = <<"cd", "exit">>
    /\ parsed.kind = "error" /\ ~Dispatched
    /\ cwd = "start" /\ pc = "read"

(***************************************************************************)
(* C26: a line that is a parse error, from parse_builtin_cmds or from      *)
(* either parser, leaves the shell in main's loop with nothing done: no    *)
(* process forked (so nothing executed and no file opened), the working    *)
(* directory and the exit status as they were.                             *)
(***************************************************************************)
\* the line read was refused: puts(PARSE_ERROR_MSG)
Refused == ppc = "done" /\ parsed.kind = "error"

C26_NothingAfterError == Refused => (NothingForked /\ cwd = "start")

C26_ErrorReadsOn ==
    [][(ppc = "off" /\ Refused')
         => (pc' = "read" /\ UNCHANGED <<procs, shellFds, cwd, exitStatus>>)]_vars

C26_ParseErrorDoesNothing == []C26_NothingAfterError /\ C26_ErrorReadsOn

\* the line "a | | b", refused by parse_multiple_commands: the shell is at
\* its next read
C26_Witness ==
    /\ Refused /\ lexed.tokens = <<"a", "|", "|", "b">>
    /\ parsed.called = "multi"
    /\ pc = "read" /\ NothingForked /\ exitStatus = -1

(***************************************************************************)
(* C27: at every read of the shell, whatever lines were accepted or        *)
(* refused before and whatever their processes are doing, each line        *)
(* evaluates to the outcome it has on a shell that has read nothing: the   *)
(* same commands, the same background flag or the same parse error.        *)
(***************************************************************************)
\* shell_eval's parse of each line, by the value global_bkg_proc has when
\* the line is read
ParseOf == [b \in BOOLEAN |-> [l \in SysLines |-> EvalParse(Lex(l), b)]]

C27_SameOutcomeAtEveryRead == pc = "read" => ParseOf[global_bkg_proc] = ParseOf[FALSE]

\* the shell reads while the command of a background line still runs and
\* the child of an earlier line has terminated unreaped
C27_Witness ==
    /\ pc = "read" /\ ~inHandler
    /\ \E p, q \in Pids : procs[p].st = "running" /\ procs[q].st = "zombie"
    /\ \E l \in SysLines : ParseOf[TRUE][l] # ParseOf[FALSE][l]

(***************************************************************************)
(* C28: a stage that has an output redirect runs its program with stdout   *)
(* on the redirect file, not on a pipe.                                    *)
(***************************************************************************)
\* the command and the options launch_process got for stage k of the line
\* in hand
HasDest(k) == At(cmds, k).dest # NULL

OptionsOf(k) == IF pc = "single_wait" THEN PIPE_NONE ELSE LaunchOptions(k, Len(cmds))

StdoutOf(k) == procs[At(pids, k)].stdout

C28_RedirectWinsOverPipe ==
    \A k \in Forked :
        (Running(k) /\ HasDest(k)) => StdoutOf(k) = File(At(cmds, k).dest)

\* what holds: the redirect is stdout where launch_process is not told
\* PIPE_OUT, and a stage told PIPE_OUT writes to its pipe
C28_RedirectWithoutPipe ==
    \A k \in Forked :
        Running(k) =>
            IF HasFlag(OptionsOf(k), PIPE_OUT)
            THEN StdoutOf(k) = PipeEnd(PipeOf(k), "w")
            ELSE HasDest(k) => StdoutOf(k) = File(At(cmds, k).dest)

\* a stage with an output redirect runs with stdout on the write end of its
\* pipe
C28_Witness ==
    \E k \in Forked :
        /\ Running(k) /\ HasDest(k)
        /\ HasFlag(OptionsOf(k), PIPE_OUT)
        /\ StdoutOf(k) = PipeEnd(PipeOf(k), "w")

(***************************************************************************)
(* C29: a child whose execvp fails terminates with failure status and the  *)
(* shell goes on: the failure changes nothing of the shell, does not end   *)
(* it, and is never the shell's own exit status.                           *)
(***************************************************************************)
\* lines 507-508 were reached in process p: exit(EXIT_FAILURE), not reaped
ExecFailed(p) == procs[p].st = "zombie" /\ procs[p].status = "exec_failed"

\* the step of the child itself leaves the shell as it was
C29_ChildFailsAlone ==
    [][\A p \in Pids :
          (procs[p].st = "forked" /\ procs'[p].status = "exec_failed")
             => (procs'[p].st = "zombie" /\ UNCHANGED shellVars)]_vars

\* the step in which the shell collects the failed child does not end it
C29_ShellGoesOn ==
    [][(\E p \in Pids : ExecFailed(p) /\ procs'[p].st = "free") => pc' # "exited"]_vars

C29_ExitStatusIsOwn == exitStatus # EXIT_FAILURE

C29_ExecFailureStaysInChild ==
    C29_ChildFailsAlone /\ C29_ShellGoesOn /\ []C29_ExitStatusIsOwn

\* the same where signal() gives restarting calls
C29_GoesOnWithRestart ==
    [][(sigMode = "bsd" /\ \E p \in Pids : ExecFailed(p) /\ procs'[p].st = "free")
          => pc' # "exited"]_vars

\* the shell is in fgets, the SIGCHLD of a background child whose execvp
\* failed is about to be delivered, and the interrupted fgets will fail
C29_Witness ==
    /\ pc = "read" /\ sigMode = "sysv" /\ sigpending /\ handler /\ ~inHandler
    /\ \E p \in Pids : ExecFailed(p) /\ Children = {p}
    /\ exitStatus = -1

(***************************************************************************)
(* C30: a child whose redirect file cannot be opened ends by its own exit  *)
(* with failure status, without running its program; no program is run     *)
(* with stdin or stdout closed.                                            *)
(***************************************************************************)
\* how a child that has terminated came to its end: "exited" (its program
\* ran and ended), "exec_failed" (exit(EXIT_FAILURE), line 508) or
\* "crashed" (killed by a signal before execvp)
EndOf(p) == procs[p].status

C30_OpenFailureExits ==
    \A p \in Pids : procs[p].st = "zombie" => EndOf(p) \in {"exited", "exec_failed"}

\* what holds: a program that runs has both descriptors bound, and a child
\* ends before its execvp by a signal only if it had a file to open
C30_NeverExecUnbound ==
    /\ [](\A p \in Pids :
            procs[p].st = "running" => (procs[p].stdin # Closed /\ procs[p].stdout # Closed))
    /\ [][\A p \in Pids :
             (procs[p].st = "forked" /\ procs'[p].status = "crashed")
                => (procs[p].plan.opens /\ procs'[p].st = "zombie")]_vars

\* the child of the foreground line "a < a" was killed before its execvp;
\* the shell waits for it
C30_Witness ==
    /\ pc = "single_wait" /\ At(cmds, 0).src # NULL
    /\ At(pids, 0) > 0
    /\ procs[At(pids, 0)].st = "zombie" /\ EndOf(At(pids, 0)) = "crashed"

(***************************************************************************)
(* C31: a line parse_multiple_commands accepts comes out as one command    *)
(* per segment between | tokens: as many commands as the line has | tokens *)
(* plus one, which is the tokenizer's global_num_commands.                 *)
(***************************************************************************)
\* the | tokens of the line: the positions at which rule 3 of yylex matched
PipeTokens == {i \in 1 .. Len(lexed.tokens) : lexed.tokens[i] = "|"}

C31_OneCommandPerSegment ==
    (ppc = "done" /\ parsed.kind = "chain") =>
        /\ lexed.num_commands = Cardinality(PipeTokens) + 1
        /\ Len(parsed.cmds) = lexed.num_commands

\* what holds: the tokenizer's count is the number of | tokens plus one
C31_TokenizerCountsPipes ==
    ppc = "done" => lexed.num_commands = Cardinality(PipeTokens) + 1

\* the line "a | b > a b": one | token, three commands
C31_Witness ==
    /\ ppc = "done" /\ lexed.tokens = <<"a", "|", "b", ">", "a", "b">>
    /\ lexed.num_commands = 2 /\ Cardinality(PipeTokens) = 1
    /\ parsed.kind = "chain" /\ Len(parsed.cmds) = 3

(***************************************************************************)
(* C32: when the shell is back at its read, nothing the evaluation of the  *)
(* line allocated for its commands is still allocated: no argv array and   *)
(* no command vector, whether the line was launched or refused.            *)
(***************************************************************************)
\* the heap blocks shell_eval and the parser it called allocated for the
\* line read: the data of command_vec (vec_init, line 266; vec_push frees
\* the block it replaces) and the argv of every slice_argv_from_vec call
\* (the single parser slices once; the multi parser slices right before
\* each push)
CommandBlocks ==
    CASE parsed.called = "single" ->
           IF parse_single_command(lexed.tokens, FALSE).argv # NullArgv
           THEN {<<"argv", 1>>} ELSE {}
      [] parsed.called = "multi" ->
           {<<"command_vec", 0>>} \cup
           {<<"argv", k>> :
               k \in 1 .. Len(parse_multiple_commands(lexed.tokens, FALSE).cmds)}
      [] OTHER -> {}

\* what shell_eval frees before it returns: nothing on the returns of
\* lines 252 and 273; command.argv at line 263; the vector and, through
\* command_vec_clear_policy, every argv in it at line 276
FreedBlocks ==
    CASE parsed.kind = "single" -> {<<"argv", 1>>}
      [] parsed.kind = "chain" ->
           {<<"command_vec", 0>>} \cup
           {<<"argv", k>> :
               k \in {j \in 1 .. Len(parsed.cmds) : parsed.cmds[j].argv # NullArgv}}
      [] OTHER -> {}

\* shell_eval has returned for the line read
Evaluated == ppc = "done" /\ pc = "read"

C32_NoCommandOutlivesLine == Evaluated => CommandBlocks \ FreedBlocks = {}

\* what holds: nothing is left of a line that was launched
C32_LaunchedLineIsFreed ==
    (Evaluated /\ parsed.kind \in {"single", "chain"}) => CommandBlocks \ FreedBlocks = {}

\* the line "a | |" was refused: the command vector and the argv of its
\* first command are still allocated at the next read
C32_Witness ==
    /\ Evaluated /\ lexed.tokens = <<"a", "|", "|">>
    /\ parsed.kind = "error"
    /\ CommandBlocks \ FreedBlocks = {<<"command_vec", 0>>, <<"argv", 1>>}

(***************************************************************************)
(* C33: an allocation that fails while a line is read and evaluated ends   *)
(* the shell with failure status: the shell never goes on with a token     *)
(* list that lacks a token of the line, and never ends otherwise.          *)
(***************************************************************************)
C33_AllocationFailureIsFatal ==
    /\ ppc \in {"eval", "done"} => lexed = Lex(input)
    /\ pc = "exited" => exitStatus = EXIT_FAILURE

\* what holds: a failed strdup, vec_init or vec_push of the parser ends
\* the shell with failure status or not at all
C33_ExitOrKilled ==
    pc = "exited" => exitStatus \in {EXIT_FAILURE, KilledBySignal}

\* the line "a a": the second token was not stored and the line was parsed
\* as the command a, to be launched
C33_Witness ==
    /\ ppc = "done" /\ input = <<"a", "a">>
    /\ lexed.tokens = <<"a">>
    /\ parsed.kind = "single" /\ parsed.cmds = <<CommandOf(<<"a">>, NULL, NULL)>>
    /\ pc # "exited"

(***************************************************************************)
(* C34: the launcher waits only for children of the line in hand: a stage  *)
(* whose fork failed is not waited for, and a foreground wait neither      *)
(* blocks on nor reaps a child of an earlier background line.              *)
(***************************************************************************)
\* the shell is at the waitpid of line 258 or of line 463
AtWait == pc \in {"single_wait", "chain_wait"}

\* the pid that call is given
WaitedPid == At(pids, idx)

\* the launcher's waitpid returns in this step (a delivery of SIGCHLD
\* changes sigVars, a child's step leaves the shell where it is)
WaitReturns == AtWait /\ UNCHANGED sigVars /\ <<pc, idx>>' # <<pc, idx>>

C34_NoWaitAfterFailedFork == AtWait => WaitedPid # -1

C34_ReapsOnlyWaitedStage ==
    [][WaitReturns =>
         \A p \in Pids :
            (procs[p].st # "free" /\ procs'[p].st = "free") => p = WaitedPid]_vars

C34_WaitsOnlyOwnChildren == []C34_NoWaitAfterFailedFork /\ C34_ReapsOnlyWaitedStage

\* what holds where the fork succeeded: the wait is for that child and
\* reaps no other
C34_OwnChildWhenForked ==
    [][(WaitReturns /\ WaitedPid > 0) =>
         \A p \in Pids :
            (procs[p].st # "free" /\ procs'[p].st = "free") => p = WaitedPid]_vars

\* the fork of a foreground command failed; the shell is in waitpid(-1),
\* which blocks on the running child of an earlier background line
C34_Witness ==
    /\ pc = "single_wait" /\ WaitedPid = -1 /\ ~inHandler
    /\ \E p \in Pids : Children = {p} /\ procs[p].st = "running"
    /\ WaitResults(WaitedPid) = {}

(***************************************************************************)
(* C35: launch_process_chain is given at least two commands, and every     *)
(* launch_process call it makes is for a command of the vector, its pid    *)
(* stored in a slot of pids.                                               *)
(***************************************************************************)
\* the shell is in launch_process_chain
InChain == pc \in {"chain_pipes", "chain_fork", "chain_close", "chain_wait"}

\* the shell is about to call launch_process(&commands[idx], ...) and to
\* store the result in pids[idx]
AtLaunch == pc = "chain_fork"

C35_ChainStaysInBounds ==
    /\ InChain => Len(cmds) >= 2
    /\ AtLaunch => idx < Len(cmds)

\* what holds: a vector of two or more commands is launched within bounds
C35_InBoundsFromTwo ==
    (AtLaunch /\ Len(cmds) >= 2) => idx < Len(cmds)

\* the last launch of line 455, at index 1 of a vector of one command
C35_Witness ==
    /\ AtLaunch /\ Len(cmds) = 1 /\ idx = 1
    /\ idx = LastLaunchIdx(Len(cmds))
    /\ Len(pids) = 1

(***************************************************************************)
(* C36: global_bkg_proc is false whenever the shell reads a line; it is    *)
(* set only by a parse whose line is launched, and the launch clears it.   *)
(***************************************************************************)
C36_FlagClearAtRead == pc = "read" => ~global_bkg_proc

C36_SetOnlyWhenLaunched ==
    [][(~global_bkg_proc /\ global_bkg_proc') => pc' \in {"single_fork", "chain_pipes"}]_vars

C36_BackgroundFlagReset == []C36_FlagClearAtRead /\ C36_SetOnlyWhenLaunched

\* the shell is back at its read with the flag clear while the child of a
\* background line has not yet reached its execvp
C36_Witness ==
    /\ pc = "read" /\ ~global_bkg_proc /\ cmds = <<>>
    /\ \E p \in Pids : Children = {p} /\ procs[p].st = "forked"

(***************************************************************************)
(* C37: in every accepted line the file of each redirect is a word token,  *)
(* never a token that begins with <, >, | or &.                            *)
(***************************************************************************)
\* p_command->src or p_command->dest is unset or a word
FileIsWord(f) == f = NULL \/ IsWord(f)

C37_RedirectFileIsWord ==
    (ppc = "done" /\ Accepted) =>
        \A k \in 1 .. Len(parsed.cmds) :
            FileIsWord(parsed.cmds[k].src) /\ FileIsWord(parsed.cmds[k].dest)

\* what holds: the single parser never takes <, > or | for a file, and
\* the pipeline parser never takes <, > or & for an output file
C37_RefusedOperators ==
    (ppc = "done" /\ Accepted) =>
        \A k \in 1 .. Len(parsed.cmds) :
            /\ parsed.called = "single" =>
                  /\ parsed.cmds[k].src \notin {"<", ">", "|"}
                  /\ parsed.cmds[k].dest \notin {"<", ">", "|"}
            /\ parsed.called = "multi" => parsed.cmds[k].dest \notin {"<", ">", "&"}

\* the line "a < &": accepted, the command a reading from the file &, in
\* the foreground
C37_Witness ==
    /\ ppc = "done" /\ lexed.tokens = <<"a", "<", "&">>
    /\ parsed.kind = "single" /\ ~parsed.bkg
    /\ parsed.cmds = <<CommandOf(<<"a">>, "&", NULL)>>

(***************************************************************************)
(* C38: an accepted line loses no token: each word is in one argv or is    *)
(* the file of a redirect, each < and > gives a command its input or       *)
(* output file, and a & makes the line a background line.                  *)
(***************************************************************************)
\* the positions of the line's tokens that begin with c (w: a word)
TokensOf(c) == {i \in 1 .. Len(lexed.tokens) : Char0(lexed.tokens[i]) = c}

\* where the words of the parsed commands stand: <<k, j>> for argv[j - 1]
\* of command k, <<k, 0>> for its src, <<k, -1>> for its dest
PlacedWords ==
    {<<k, j>> \in (1 .. Len(parsed.cmds)) \X (-1 .. GrammarLen) :
        LET c == parsed.cmds[k]
        IN  CASE j = -1 -> c.dest # NULL /\ IsWord(c.dest)
              [] j = 0 -> c.src # NULL /\ IsWord(c.src)
              [] OTHER -> j <= Len(c.argv) /\ c.argv[j] # NULL /\ IsWord(c.argv[j])}

\* the commands given an input file, and those given an output file
WithSrc == {k \in 1 .. Len(parsed.cmds) : parsed.cmds[k].src # NULL}

WithDest == {k \in 1 .. Len(parsed.cmds) : parsed.cmds[k].dest # NULL}

C38_WordsKept ==
    (ppc = "done" /\ Accepted) => Cardinality(PlacedWords) = Cardinality(TokensOf("w"))

C38_OperatorsTaken ==
    (ppc = "done" /\ Accepted) =>
        /\ Cardinality(WithSrc) = Cardinality(TokensOf("<"))
        /\ Cardinality(WithDest) = Cardinality(TokensOf(">"))
        /\ parsed.bkg <=> TokensOf("&") # {}

C38_NoTokenDiscarded == C38_WordsKept /\ C38_OperatorsTaken

\* what holds: no word is placed twice or made up
C38_NoWordAdded ==
    (ppc = "done" /\ Accepted) => Cardinality(PlacedWords) <= Cardinality(TokensOf("w"))

\* the line "a > a b": the word after the file name is in no argv
C38_Witness ==
    /\ ppc = "done" /\ lexed.tokens = <<"a", ">", "a", "b">>
    /\ parsed.kind = "single"
    /\ parsed.cmds = <<CommandOf(<<"a">>, NULL, "a")>>
    /\ Cardinality(PlacedWords) = 2 /\ Cardinality(TokensOf("w")) = 3

(***************************************************************************)
(* C39: whatever the order in which sigchld_handler and a foreground wait  *)
(* come to a terminated child, the wait returns, also when the handler has *)
(* reaped the child first; the shell gets from every wait to its next      *)
(* read.                                                                   *)
(***************************************************************************)
\* the shell is at the wait for stage k, whose process has terminated
WaitingForGone(k) == AtWait /\ idx = k /\ WaitedPid > 0 /\ Gone(procs, k)

C39_WaitReturnsOnceGone ==
    \A k \in 0 .. MaxCmds - 1 : WaitingForGone(k) ~> ~(AtWait /\ idx = k)

C39_ReachesNextLine == AtWait ~> (pc = "read")

C39_ReaperAndWaiter == C39_WaitReturnsOnceGone /\ C39_ReachesNextLine

\* the handler has run and reaped the child of a foreground command; the
\* shell is still in the waitpid for it
C39_Witness ==
    /\ pc = "single_wait" /\ WaitedPid > 0
    /\ procs[WaitedPid].st = "free" /\ Children = {}
    /\ ~sigpending /\ ~inHandler
    /\ WaitResults(WaitedPid) = {procs}

(***************************************************************************)
(* C40: a child the launcher does not wait for, once terminated, is reaped *)
(* as long as the shell runs: it does not stay a zombie.                   *)
(***************************************************************************)
\* p has terminated, is not reaped, and is no stage the launcher has in
\* hand
BackgroundZombie(p) == procs[p].st = "zombie" /\ p \notin Range(pids)

C40_BackgroundReaped ==
    \A p \in Pids : BackgroundZombie(p) ~> (procs[p].st = "free" \/ pc = "exited")

\* what holds: the same where the handler stays installed
C40_ReapedWhileInstalled ==
    \A p \in Pids :
        (BackgroundZombie(p) /\ sigMode = "bsd") ~> (procs[p].st = "free" \/ pc = "exited")

\* the handler has run once and is no longer the disposition; a child of a
\* background line has terminated since, with no signal pending, while
\* the shell is at its read
C40_Witness ==
    /\ pc = "read" /\ sigMode = "sysv" /\ ~handler /\ ~sigpending /\ ~inHandler
    /\ \E p \in Pids : BackgroundZombie(p) /\ Children = {p}

=============================================================================
